---- MODULE Spec2Model ----
(***************************************************************************)
(* A state-machine model of src/app.js (class App): the asset-load chain   *)
(* of the constructor, setupXR with its controller handlers and the        *)
(* connection timeout, and the per-frame dolly update.                     *)
(*                                                                         *)
(* Lengths are in tenths of a unit and times in tenths of a second, so     *)
(* wallLimit 1.3 is 13, the dolly's start z = 10 is 100, and a frame of    *)
(* dt = 0.1 s at speed 2 moves 2 tenths = 0.2 units.                       *)
(*                                                                         *)
(* src/app.js ends inside moveDolly (line 203): the rest of moveDolly and  *)
(* the render callback are not in the source, and are modelled from the    *)
(* specification's per-frame update contract (advanceAndClamp,             *)
(* AnySelectPressed, Render).                                              *)
(***************************************************************************)
EXTENDS Integers, FiniteSets, Sequences, TLC

\* ---------------------------------------------------------------- bounds
\* The largest frame time, in tenths of a second (dt ranges over 0..MaxDt).
MaxDt == 2
\* The number of frames of a session that the model follows.
MaxFrames == 2

\* ------------------------------------------------------ program constants
\* moveDolly: const wallLimit = 1.3 (in tenths).
wallLimit == 13
\* moveDolly: const speed = 2.
speed == 2
\* buildControllers: for (let i = 0; i <= 1; i++).
lastControllerIndex == 1

Handles == 0..lastControllerIndex
ModelIds == {1, 2, 3}
\* The event types setupXR listens to.
EventTypes == {"selectstart", "selectend", "connected"}
\* Head orientations (the forward direction of dummyCam), axis-aligned.
Dirs == {[x |-> 0, z |-> -1], [x |-> 1, z |-> 0], [x |-> 0, z |-> 1], [x |-> -1, z |-> 0]}

VARIABLES
    env,             \* the environment map's load: "loading", "loaded", "failed"
    errorLog,        \* the messages the application passed to console.error
    models,          \* models[k]: "idle", "loading", "loaded", "failed"
    loadingBarVisible,
    boardData,       \* the fetch of boardData.json: "pending", "set"
    setupXRRuns,     \* how many times setupXR ran
    xrEnabled,       \* renderer.xr.enabled
    timer,           \* the timeout of setupXR: "unarmed", "armed", "fired", "cancelled"
    timerArms,       \* how many times setTimeout was called
    timeoutRuns,     \* how many times connectionTimeout ran
    useGaze,         \* this.useGaze (FALSE: unset)
    gazeControllers, \* how many GazeController instances were constructed
    controllers,     \* this.controllers: handle -> [selectPressed]; empty before setupXR
    listeners,       \* the <<handle, event type>> pairs with a listener
    connected,       \* the input source provider: handle -> connected
    lastSelect,      \* per handle, the last select event delivered: "none" before any
    animationLoop,   \* whether setAnimationLoop registered the render callback
    proxy,           \* this.proxy: "undefined" (no line of the source assigns it)
    dolly,           \* this.dolly: position x, y, z and orientation q
    dt,              \* the clock's delta of the last frame
    headDir,         \* the forward direction of dummyCam at the last frame
    frames           \* the frames rendered so far

vars == <<env, errorLog, models, loadingBarVisible, boardData, setupXRRuns, xrEnabled,
          timer, timerArms, timeoutRuns, useGaze, gazeControllers, controllers,
          listeners, connected, lastSelect, animationLoop, proxy, dolly, dt, headDir,
          frames>>

loadVars == <<env, errorLog, models, loadingBarVisible, boardData>>
xrVars == <<setupXRRuns, xrEnabled, timer, timerArms, controllers, listeners,
            lastSelect, animationLoop>>
gazeVars == <<timeoutRuns, useGaze, gazeControllers>>
frameVars == <<proxy, dolly, dt, headDir, frames>>

\* --------------------------------------------------------------- helpers
Abs(n) == IF n < 0 THEN -n ELSE n

\* A mutant of DollyStart: the coordinates given in another order, set(10, 0, 0).
DollyStartSwapped == [x |-> 100, y |-> 0, z |-> 0, q |-> [x |-> 0, z |-> -1]]

\* constructor: this.dolly.position.set(0, 0, 10); q is the forward direction of
\* the dolly's orientation, which a new Object3D has along -z.
DollyStart == [x |-> 0, y |-> 0, z |-> 100, q |-> [x |-> 0, z |-> -1]]

\* buildControllers: two handles, each with userData.selectPressed = false.
buildControllers == [i \in Handles |-> [selectPressed |-> FALSE]]

\* A mutant of RegisteredListeners: only the first controller gets listeners.
RegisteredListenersFirstOnly == {<<i, t>> : i \in {0}, t \in EventTypes}

\* setupXR: controllers.forEach registers the three listeners on every handle.
RegisteredListeners == {<<i, t>> : i \in Handles, t \in EventTypes}

\* "If any Controller Handle reports selectPressed = true".
AnySelectPressed == \E i \in DOMAIN controllers : controllers[i].selectPressed

\* The boundary clamp: a coordinate is held at the limit.
Clamp(c) == IF c > wallLimit THEN wallLimit ELSE IF c < -wallLimit THEN -wallLimit ELSE c

\* The rest of the per-frame update: the dolly takes the head's orientation
\* (line 203, where the source ends), advances along the forward direction by
\* speed * dt while a selection is held, and each horizontal axis is clamped.
advanceAndClamp(pos, pressed, d, h) ==
    LET moved == IF pressed
                 THEN [pos EXCEPT !.x = @ + speed * d * h.x, !.z = @ + speed * d * h.z]
                 ELSE pos
    IN [moved EXCEPT !.x = Clamp(@), !.z = Clamp(@), !.q = h]

\* A mutant of moveDolly: the guard on this.proxy is missing.
moveDollyUnguarded(d, h) == advanceAndClamp(dolly, AnySelectPressed, d, h)

\* moveDolly(dt): if (this.proxy === undefined) return; then the update.
moveDolly(d, h) ==
    IF proxy = "undefined" THEN dolly ELSE advanceAndClamp(dolly, AnySelectPressed, d, h)

\* ------------------------------------------------------------------ Init
\* The state at the end of the constructor: the environment load, the load of
\* model1 and the fetch are in flight; setupXR has not run.
Init ==
    /\ env = "loading"
    /\ errorLog = {}
    /\ models = [k \in ModelIds |-> IF k = 1 THEN "loading" ELSE "idle"]
    /\ loadingBarVisible = TRUE
    /\ boardData = "pending"
    /\ setupXRRuns = 0
    /\ xrEnabled = FALSE
    /\ timer = "unarmed"
    /\ timerArms = 0
    /\ timeoutRuns = 0
    /\ useGaze = FALSE
    /\ gazeControllers = 0
    /\ controllers = [i \in {} |-> [selectPressed |-> FALSE]]
    /\ listeners = {}
    /\ connected = [i \in Handles |-> FALSE]
    /\ lastSelect = [i \in Handles |-> "none"]
    /\ animationLoop = FALSE
    /\ proxy = "undefined"
    /\ dolly = DollyStart
    /\ dt = 0
    /\ headDir = [x |-> 0, z |-> -1]
    /\ frames = 0

\* ------------------------------------------------------- setEnvironment
\* The onLoad callback of the environment map: scene.environment is set.
EnvLoaded ==
    /\ env = "loading"
    /\ env' = "loaded"
    /\ UNCHANGED <<errorLog, models, loadingBarVisible, boardData>>
    /\ UNCHANGED <<xrVars, gazeVars, connected, frameVars>>

\* The onError callback of the environment map: console.error, nothing else.
EnvFailed ==
    /\ env = "loading"
    /\ env' = "failed"
    /\ errorLog' = errorLog \cup {"An error occurred setting the environment"}
    /\ UNCHANGED <<models, loadingBarVisible, boardData>>
    /\ UNCHANGED <<xrVars, gazeVars, connected, frameVars>>

\* constructor: fetch('./assets/boardData.json') resolves.
BoardDataFetched ==
    /\ boardData = "pending"
    /\ boardData' = "set"
    /\ UNCHANGED <<env, errorLog, models, loadingBarVisible>>
    /\ UNCHANGED <<xrVars, gazeVars, connected, frameVars>>

\* ---------------------------------------------------------------- setupXR
\* setupXR: enables XR, arms the timeout, builds the two controllers, registers
\* the listeners and starts the render loop.
setupXR ==
    /\ setupXRRuns' = setupXRRuns + 1
    /\ xrEnabled' = TRUE
    /\ timer' = "armed"
    /\ timerArms' = timerArms + 1
    /\ controllers' = buildControllers
    /\ listeners' = listeners \cup RegisteredListeners
    /\ lastSelect' = [i \in Handles |-> "none"]
    /\ animationLoop' = TRUE

\* ------------------------------------------------------------ loadModels
\* A mutant of onModel1Loaded: the callback of model1 goes on to setupXR.
onModel1LoadedThenSetup ==
    /\ models[1] = "loading"
    /\ models' = [models EXCEPT ![1] = "loaded", ![2] = "loading"]
    /\ setupXR
    /\ UNCHANGED <<env, errorLog, loadingBarVisible, boardData>>
    /\ UNCHANGED <<gazeVars, connected, frameVars>>

\* The onLoad callback of model1: adds it and starts the load of model2.
onModel1Loaded ==
    /\ models[1] = "loading"
    /\ models' = [models EXCEPT ![1] = "loaded", ![2] = "loading"]
    /\ UNCHANGED <<env, errorLog, loadingBarVisible, boardData>>
    /\ UNCHANGED <<xrVars, gazeVars, connected, frameVars>>

\* The onLoad callback of model2: adds it and starts the load of model3.
onModel2Loaded ==
    /\ models[2] = "loading"
    /\ models' = [models EXCEPT ![2] = "loaded", ![3] = "loading"]
    /\ UNCHANGED <<env, errorLog, loadingBarVisible, boardData>>
    /\ UNCHANGED <<xrVars, gazeVars, connected, frameVars>>

\* The onLoad callback of model3: adds it, hides the loading bar, runs setupXR.
onModel3Loaded ==
    /\ models[3] = "loading"
    /\ models' = [models EXCEPT ![3] = "loaded"]
    /\ loadingBarVisible' = FALSE
    /\ setupXR
    /\ UNCHANGED <<env, errorLog, boardData>>
    /\ UNCHANGED <<gazeVars, connected, frameVars>>

\* A model's load fails: loader.load is given no onError callback, so no code
\* of the application runs and the chain stops.
ModelFailed(k) ==
    /\ models[k] = "loading"
    /\ models' = [models EXCEPT ![k] = "failed"]
    /\ UNCHANGED <<env, errorLog, loadingBarVisible, boardData>>
    /\ UNCHANGED <<xrVars, gazeVars, connected, frameVars>>

\* ------------------------------------------------------ setupXR handlers
\* A mutant of onSelectStart: the handles share one userData.
onSelectStartShared(i) ==
    controllers' = [j \in DOMAIN controllers |-> [selectPressed |-> TRUE]]

\* A mutant of onSelectStart: a select is dropped once the fallback is active.
onSelectStartUnlessGaze(i) ==
    controllers' = IF useGaze THEN controllers
                   ELSE [controllers EXCEPT ![i].selectPressed = TRUE]

\* onSelectStart: this.userData.selectPressed = true, on the handle of the event.
onSelectStart(i) ==
    controllers' = [controllers EXCEPT ![i].selectPressed = TRUE]

\* onSelectEnd: this.userData.selectPressed = false, on the handle of the event.
onSelectEnd(i) ==
    controllers' = [controllers EXCEPT ![i].selectPressed = FALSE]

\* A mutant of onConnected: a connecting controller switches the fallback off.
onConnectedResetsGaze ==
    /\ timer' = IF timer = "armed" THEN "cancelled" ELSE timer
    /\ useGaze' = FALSE
    /\ UNCHANGED <<timeoutRuns, gazeControllers>>

\* onConnected: clearTimeout(timeoutId); clearing a timer that fired or was
\* cleared does nothing.
onConnected ==
    /\ timer' = IF timer = "armed" THEN "cancelled" ELSE timer
    /\ UNCHANGED gazeVars

\* A mutant of ConnectionTimeout: the callback is scheduled with setInterval.
ConnectionTimeoutRepeating ==
    /\ timer = "armed"
    /\ timeoutRuns < 2
    /\ timer' = "armed"
    /\ timeoutRuns' = timeoutRuns + 1
    /\ useGaze' = TRUE
    /\ gazeControllers' = gazeControllers + 1
    /\ UNCHANGED <<setupXRRuns, xrEnabled, timerArms, controllers, listeners,
                   lastSelect, animationLoop>>
    /\ UNCHANGED <<loadVars, connected, frameVars>>

\* The timeout armed by setTimeout(connectionTimeout, 2000) fires, once, unless
\* it was cleared: useGaze = true and a GazeController is constructed.
ConnectionTimeout ==
    /\ timer = "armed"
    /\ timer' = "fired"
    /\ timeoutRuns' = timeoutRuns + 1
    /\ useGaze' = TRUE
    /\ gazeControllers' = gazeControllers + 1
    /\ UNCHANGED <<setupXRRuns, xrEnabled, timerArms, controllers, listeners,
                   lastSelect, animationLoop>>
    /\ UNCHANGED <<loadVars, connected, frameVars>>

\* ------------------------------------------------- input source events
\* The input source of handle i attaches: 'connected' is dispatched on it.
Connected(i) ==
    /\ xrEnabled
    /\ ~connected[i]
    /\ connected' = [connected EXCEPT ![i] = TRUE]
    /\ IF <<i, "connected">> \in listeners
       THEN onConnected
       ELSE UNCHANGED <<timer, gazeVars>>
    /\ UNCHANGED <<setupXRRuns, xrEnabled, timerArms, controllers, listeners,
                   lastSelect, animationLoop>>
    /\ UNCHANGED <<loadVars, frameVars>>

\* The input source of handle i detaches: the application has no listener.
Disconnected(i) ==
    /\ connected[i]
    /\ connected' = [connected EXCEPT ![i] = FALSE]
    /\ UNCHANGED <<loadVars, xrVars, gazeVars, frameVars>>

\* 'selectstart' is dispatched on handle i.
SelectStart(i) ==
    /\ xrEnabled
    /\ connected[i]
    /\ lastSelect' = [lastSelect EXCEPT ![i] = "selectstart"]
    /\ IF <<i, "selectstart">> \in listeners
       THEN onSelectStart(i)
       ELSE UNCHANGED controllers
    /\ UNCHANGED <<setupXRRuns, xrEnabled, timer, timerArms, listeners, animationLoop>>
    /\ UNCHANGED <<loadVars, gazeVars, connected, frameVars>>

\* 'selectend' is dispatched on handle i.
SelectEnd(i) ==
    /\ xrEnabled
    /\ connected[i]
    /\ lastSelect' = [lastSelect EXCEPT ![i] = "selectend"]
    /\ IF <<i, "selectend">> \in listeners
       THEN onSelectEnd(i)
       ELSE UNCHANGED controllers
    /\ UNCHANGED <<setupXRRuns, xrEnabled, timer, timerArms, listeners, animationLoop>>
    /\ UNCHANGED <<loadVars, gazeVars, connected, frameVars>>

\* ------------------------------------------------------------- rendering
\* The render callback registered by setAnimationLoop: one frame, with the
\* clock's delta d and the head's forward direction h; it runs moveDolly.
Render(d, h) ==
    /\ animationLoop
    /\ frames < MaxFrames
    /\ frames' = frames + 1
    /\ dt' = d
    /\ headDir' = h
    /\ dolly' = moveDolly(d, h)
    /\ UNCHANGED proxy
    /\ UNCHANGED <<loadVars, xrVars, gazeVars, connected>>

\* ------------------------------------------------------------------ Next
ModelSettled ==
    \/ onModel1Loaded
    \/ onModel2Loaded
    \/ onModel3Loaded
    \/ \E k \in ModelIds : ModelFailed(k)

EnvSettled == EnvLoaded \/ EnvFailed

Next ==
    \/ EnvLoaded
    \/ EnvFailed
    \/ BoardDataFetched
    \/ onModel1Loaded
    \/ onModel2Loaded
    \/ onModel3Loaded
    \/ \E k \in ModelIds : ModelFailed(k)
    \/ ConnectionTimeout
    \/ \E i \in Handles : Connected(i)
    \/ \E i \in Handles : Disconnected(i)
    \/ \E i \in Handles : SelectStart(i)
    \/ \E i \in Handles : SelectEnd(i)
    \/ \E d \in 0..MaxDt, h \in Dirs : Render(d, h)

Spec == Init /\ [][Next]_vars

\* The event loop runs every pending callback: a load in flight ends (in its
\* onLoad or in a failure), and an armed timeout that is not cleared fires.
FairSpec ==
    /\ Spec
    /\ WF_vars(EnvSettled)
    /\ WF_vars(ModelSettled)
    /\ WF_vars(ConnectionTimeout)

\* ================================================================ claims

AllModelsLoaded == \A k \in ModelIds : models[k] = "loaded"

\* ---- C1
FallbackCounts ==
    /\ timeoutRuns <= 1
    /\ gazeControllers = timeoutRuns
    /\ (useGaze <=> timeoutRuns = 1)
    /\ (timer = "fired" <=> timeoutRuns = 1)

\* C1: when no 'connected' event is delivered before the timeout fires, the
\* timeout does fire; useGaze goes from unset to true exactly once, exactly one
\* GazeController is created over the session, and the callback never runs a
\* second time.
C1_FallbackExactlyOnce ==
    /\ []FallbackCounts
    /\ [][/\ timeoutRuns' >= timeoutRuns
          /\ (useGaze' # useGaze =>
                 /\ ~useGaze
                 /\ timer = "armed"
                 /\ timer' = "fired"
                 /\ gazeControllers' = gazeControllers + 1)]_vars
    /\ ((timer = "armed") ~> (timer \in {"fired", "cancelled"}))

\* The timeout fired with no controller ever connected, and the session went on.
C1_Witness ==
    /\ timer = "fired"
    /\ useGaze
    /\ gazeControllers = 1
    /\ \A i \in Handles : ~connected[i] /\ lastSelect[i] = "none"
    /\ frames = MaxFrames

\* ---- C2
\* C2: a 'connected' event on either handle that is processed while the timeout
\* is armed cancels it, and from then on the timeout stays cancelled and useGaze
\* stays false, whatever connect, disconnect, select and frame events follow.
C2_ConnectCancelsTimeout ==
    /\ [](timer = "cancelled" => ~useGaze /\ gazeControllers = 0)
    /\ [][/\ (timer = "armed" /\ (\E i \in {0, 1} : ~connected[i] /\ connected'[i])
                 => timer' = "cancelled")
          /\ (timer = "cancelled" => timer' = "cancelled" /\ ~useGaze')]_vars

\* Handle 1 connected (and was used), handle 0 never was, the timeout is
\* cancelled, and handle 1 has disconnected since.
C2_Witness ==
    /\ timer = "cancelled"
    /\ ~useGaze
    /\ lastSelect[0] = "none"
    /\ lastSelect[1] = "selectend"
    /\ ~connected[0]
    /\ ~connected[1]
    /\ frames = MaxFrames

\* ---- C3
\* C3: useGaze is write-once, and once the timeout has fired no event (a
\* 'connected' event among them) clears useGaze, removes or adds a
\* GazeController, or arms the timer again.
C3_FallbackWriteOnce ==
    [][/\ (useGaze => useGaze')
       /\ (timer = "fired" =>
              /\ timer' = "fired"
              /\ gazeControllers' = gazeControllers
              /\ timerArms' = timerArms
              /\ timeoutRuns' = timeoutRuns)]_vars

\* Both controllers connected after the timeout had fired.
C3_Witness ==
    /\ timer = "fired"
    /\ useGaze
    /\ gazeControllers = 1
    /\ connected[0]
    /\ connected[1]

C5_SelectAdvancesDolly ==
    [][(/\ frames' = frames + 1
        /\ dt' > 0
        /\ \E i \in DOMAIN controllers : controllers[i].selectPressed)
       => /\ dolly'.x = Clamp(dolly.x + speed * dt' * headDir'.x)
          /\ dolly'.z = Clamp(dolly.z + speed * dt' * headDir'.z)]_vars

\* ---- C6
\* C6: exactly the two handles 0 and 1 exist once the controllers are built,
\* each starts with selectPressed = false, and selectPressed of handle i is true
\* exactly when the last select event delivered to handle i was a selectstart;
\* a step that delivers no select event changes no handle's selectPressed.
C6_SelectPressedTracksSelect ==
    /\ [](/\ DOMAIN controllers = (IF setupXRRuns = 0 THEN {} ELSE {0, 1})
          /\ \A i \in DOMAIN controllers :
                 controllers[i].selectPressed = (lastSelect[i] = "selectstart"))
    /\ [][/\ (setupXRRuns = 0 /\ setupXRRuns' > 0 =>
                 \A i \in {0, 1} : ~controllers'[i].selectPressed)
          /\ (setupXRRuns > 0 /\ lastSelect' = lastSelect =>
                 controllers' = controllers)
          /\ \A i \in {0, 1} :
                 (setupXRRuns > 0 /\ lastSelect'[i] = lastSelect[i] =>
                     controllers'[i] = controllers[i])]_vars

\* Handle 0 is pressed and handle 1 was released, after the timeout fired, a
\* disconnect and a frame.
C6_Witness ==
    /\ setupXRRuns = 1
    /\ controllers[0].selectPressed
    /\ ~controllers[1].selectPressed
    /\ lastSelect[1] = "selectend"
    /\ ~connected[1]
    /\ timer = "fired"
    /\ frames > 0

\* ---- C7
\* C7: when an asset load fails (the environment map or any of the models), the
\* application goes on without it: XR setup is still eventually reached.
C7_LoadFailureStillReachesXR ==
    (env = "failed" \/ \E k \in ModelIds : models[k] = "failed") ~> (setupXRRuns > 0)

\* ---- C8
\* C8: with this.proxy unset, a per-frame update leaves the dolly's position and
\* orientation and every handle's state unchanged, for any dt and any
\* selectPressed values.
C8_MoveDollyNoOpWithoutProxy ==
    [][(frames' = frames + 1 /\ proxy = "undefined")
       => dolly' = dolly /\ controllers' = controllers /\ connected' = connected]_vars

\* A frame ran with a selection held, the largest dt and the head turned.
C8_Witness ==
    /\ frames = MaxFrames
    /\ proxy = "undefined"
    /\ controllers[0].selectPressed
    /\ dt = MaxDt
    /\ headDir = [x |-> 1, z |-> 0]

C10_SetupSequenced ==
    /\ (models[2] # "idle" => models[1] = "loaded")
    /\ (models[3] # "idle" => models[2] = "loaded")
    /\ setupXRRuns <= 1
    /\ timerArms <= 1
    /\ timerArms = setupXRRuns
    /\ (\/ setupXRRuns > 0
        \/ xrEnabled
        \/ timer # "unarmed"
        \/ listeners # {}
        \/ DOMAIN controllers # {}
        \/ animationLoop
        \/ timeoutRuns > 0
        \/ frames > 0
        \/ \E i \in Handles : connected[i]) => AllModelsLoaded

\* The whole chain ran, the timeout fired and frames were rendered.
C10_Witness ==
    /\ AllModelsLoaded
    /\ setupXRRuns = 1
    /\ timer = "fired"
    /\ listeners = RegisteredListeners
    /\ frames = MaxFrames

====
